---- MODULE Spec2Model ----
(***************************************************************************)
(* APIRequestCacher (src/index.ts): a response cache in front of fetch.    *)
(*                                                                         *)
(* Time is Date.now() in milliseconds.  A call is issued in one            *)
(* synchronous step (key, lookup, before-hooks, fetch) and, when it went   *)
(* to the transport, settled in a later step (decode, store, after-hooks). *)
(* Strings are TLA+ strings and keys are built by concatenation, as the    *)
(* template literal of getCacheKey builds them.                            *)
(***************************************************************************)
EXTENDS Integers, Sequences, FiniteSets, TLC

\* ------------------------------------------------------------------ bounds
MaxCalls == 2
MaxTime == 1500
TimeStep == 500

\* ------------------------------------------------------- JavaScript values
\* A JavaScript value: its type tag and its literal text.
JV(t, s) == [t |-> t, s |-> s]
Undefined == JV("undefined", "")
Null == JV("null", "")
Num(s) == JV("number", s)
Str(s) == JV("string", s)
Bool(s) == JV("boolean", s)
\* A plain object; s is the text JSON.stringify gives for it.
Obj(s) == JV("object", s)

\* ToBoolean of a value, as `x ? a : b` and `x || y` evaluate it.
Truthy(v) ==
  CASE v.t = "undefined" -> FALSE
    [] v.t = "null" -> FALSE
    [] v.t = "number" -> v.s \notin {"0", "NaN"}
    [] v.t = "string" -> v.s # ""
    [] v.t = "boolean" -> v.s = "true"
    [] OTHER -> TRUE

\* JSON.stringify of a primitive value (the strings of the model hold no
\* character that JSON escapes).
JSONstringify(v) ==
  CASE v.t = "string" -> "\"" \o v.s \o "\""
    [] v.t = "null" -> "null"
    [] OTHER -> v.s

\* JSON.stringify of a plain headers object: a sequence of <<name, value>>.
RECURSIVE Members(_)
Members(h) ==
  IF h = <<>> THEN ""
  ELSE "\"" \o h[1][1] \o "\":\"" \o h[1][2] \o "\""
       \o (IF Len(h) > 1 THEN "," ELSE "") \o Members(Tail(h))

JSONstringifyHeaders(h) == "{" \o Members(h) \o "}"

\* obj[name] = value on a plain object: replaces in place or appends.
SetMember(h, name, value) ==
  IF \E i \in 1..Len(h) : h[i][1] = name
  THEN [i \in 1..Len(h) |-> IF h[i][1] = name THEN <<name, value>> ELSE h[i]]
  ELSE Append(h, <<name, value>>)

\* ------------------------------------------------------------ configuration
\* The constructor's first argument (3 when omitted); 1 keeps the ages below,
\* at and above the duration within MaxTime.
cacheDurationInSeconds == 1
cacheDuration == cacheDurationInSeconds * 1000

\* The hook lists the instance is constructed with (the README's hooks).
beforeRequestHooks == <<"addAuthToken", "addCustomHeader">>
afterRequestHooks == <<"logResponse", "afterRequestHook">>

\* The header a before-hook of the README sets on options.headers.
HookHeader(hook) ==
  IF hook = "addAuthToken" THEN <<"Authorization", "Bearer myToken">>
  ELSE <<"X-Custom-Header", "CustomValue">>

\* ------------------------------------------------------------- the cache key
\* options: [method, hasHeaders, headers, body]; method "" is an absent one.
getCacheKey(url, options) ==
  LET headersString == IF options.hasHeaders
                       THEN JSONstringifyHeaders(options.headers) ELSE ""
      method == IF options.method # "" THEN options.method ELSE "GET"
      bodyString == IF Truthy(options.body)
                    THEN JSONstringify(options.body) ELSE ""
  IN url \o ":" \o method \o ":" \o headersString \o ":" \o bodyString

\* --------------------------------------------------------------- freshness
\* Mutants of isExpired: the duration converted to milliseconds twice, and
\* an entry exactly cacheDuration old taken for expired.
isExpired_ms(entry, t) == t - entry.timestamp > cacheDuration * 1000
isExpired_ge(entry, t) == t - entry.timestamp >= cacheDuration

isExpired(entry, t) == t - entry.timestamp > cacheDuration

\* Mutant of isInCache: a key without an entry is taken for cached.
isInCache_absent(ch, cacheKey, t) ==
  IF cacheKey \notin DOMAIN ch THEN TRUE
  ELSE ~isExpired(ch[cacheKey], t)

\* isInCache's answer, and the map it leaves behind (a stale entry is deleted).
isInCache(ch, cacheKey, t) ==
  IF cacheKey \notin DOMAIN ch THEN FALSE
  ELSE ~isExpired(ch[cacheKey], t)

\* Mutant of afterLookup: a stale entry is left in the map.
afterLookup_keep(ch, cacheKey, t) == ch

afterLookup(ch, cacheKey, t) ==
  IF cacheKey \in DOMAIN ch /\ isExpired(ch[cacheKey], t)
  THEN [k \in DOMAIN ch \ {cacheKey} |-> ch[k]]
  ELSE ch

\* Mutant of cacheResponse: the entry is stamped in seconds.
cacheResponse_sec(ch, cacheKey, data, t) ==
  [k \in DOMAIN ch \cup {cacheKey} |->
     IF k = cacheKey THEN [timestamp |-> t \div 1000, data |-> data]
     ELSE ch[k]]

\* Mutant of cacheResponse: an existing entry is kept, not overwritten.
cacheResponse_keep(ch, cacheKey, data, t) ==
  IF cacheKey \in DOMAIN ch THEN ch
  ELSE [k \in DOMAIN ch \cup {cacheKey} |->
          IF k = cacheKey THEN [timestamp |-> t, data |-> data] ELSE ch[k]]

cacheResponse(ch, cacheKey, data, t) ==
  [k \in DOMAIN ch \cup {cacheKey} |->
     IF k = cacheKey THEN [timestamp |-> t, data |-> data] ELSE ch[k]]

\* ------------------------------------------------------------------- state
VARIABLES
  now,            \* Date.now()
  cache,          \* this.cache: cache key -> [timestamp, data]
  callerHeaders,  \* the headers object the caller keeps and passes again
  calls,          \* every call made so far, in the order of issue
  config,         \* this.encryptionKey and this.encryptRequests
  probe           \* key derivation on its own: two requests and their keys

vars == <<now, cache, callerHeaders, calls, config, probe>>

\* ------------------------------------------------------------------ inputs
\* What a caller passes: the method called (api: promise or observable
\* variant), the url, whether options carries the caller's headers object
\* (hdr "own"), a fresh object literal (hdr "literal") or no headers (hdr
\* "none"), the body and the force flag.
Arg(api, verb, url, hdr, body, force) ==
  [api |-> api, verb |-> verb, url |-> url, hdr |-> hdr, body |-> body,
   force |-> force]

CallArgs ==
  { Arg("promise", "get", "/x", "none", Undefined, FALSE),
    Arg("promise", "get", "/x", "none", Undefined, TRUE),
    Arg("promise", "get", "/x", "own", Undefined, FALSE),
    Arg("promise", "get", "/x", "literal", Undefined, FALSE),
    Arg("observable", "get", "/x", "none", Undefined, FALSE),
    Arg("promise", "post", "/x", "none", Num("0"), FALSE),
    Arg("promise", "post", "/x", "none", Bool("false"), FALSE) }

\* What fetch can do: reject (a network or DNS error), or resolve with a
\* response of some status whose text is the body.
NetworkError == [kind |-> "reject", ok |-> FALSE, text |-> "TypeError"]
Response(ok, text) == [kind |-> "response", ok |-> ok, text |-> text]

Outcomes ==
  { NetworkError,
    Response(TRUE, "{\"v\":1}"),
    Response(TRUE, "{\"v\":2}"),
    Response(FALSE, "{\"error\":404}"),
    Response(TRUE, "<html>") }

\* JSON.parse: the decoded value, or a SyntaxError.  A decoded value is
\* written as the JavaScript literal that denotes it.
Parses(text) ==
  text \in {"{\"v\":1}", "{\"v\":2}", "{\"error\":404}", "0", "1", "false",
            "true", "null", "\"\"", "\"a:b\""}

JSONparse(text) ==
  CASE text = "{\"v\":1}" -> "{v: 1}"
    [] text = "{\"v\":2}" -> "{v: 2}"
    [] text = "{\"error\":404}" -> "{error: 404}"
    [] text = "\"\"" -> "''"
    [] text = "\"a:b\"" -> "'a:b'"
    [] OTHER -> text

\* The literal that denotes a value the caller holds.
Literal(v) ==
  CASE v.t = "string" -> "'" \o v.s \o "'"
    [] v.t = "null" -> "null"
    [] v.t = "undefined" -> "undefined"
    [] v.t = "object" -> JSONparse(v.s)
    [] OTHER -> v.s

\* --------------------------------------------------------------- encryption
\* The constructor's encryptionKey and encryptRequests arguments.
Config(key, flag) == [encryptionKey |-> key, encryptRequests |-> flag]
Plain == Config(Null, FALSE)
FlagOnly == Config(Null, TRUE)
Sealed == Config(Str("k1"), TRUE)

\* CryptoJS.AES.encrypt(plaintext, passphrase).toString(): the OpenSSL
\* format, "Salted__" (U2FsdGVkX1 in base64), a random salt and the
\* ciphertext under the key derived from passphrase and salt.
Salts == {"s1", "s2"}
Passphrases == {"k1", "k2"}
Plaintexts ==
  {"{\"v\":1}", "{\"v\":2}", "<html>", "0", "1", "false", "true", "null",
   "\"\"", "\"a:b\""}

AESencrypt(plaintext, passphrase, salt) ==
  "U2FsdGVkX1" \o salt \o "[" \o passphrase \o "]" \o plaintext

\* CryptoJS.AES.decrypt(text, passphrase).toString(CryptoJS.enc.Utf8): the
\* plaintext of a ciphertext made with the passphrase; of anything else, no
\* text that JSON.parse accepts (the empty string, or an exception).
AESdecrypt(text, passphrase) ==
  IF \E p \in Plaintexts, s \in Salts : text = AESencrypt(p, passphrase, s)
  THEN CHOOSE p \in Plaintexts :
         \E s \in Salts : text = AESencrypt(p, passphrase, s)
  ELSE ""

\* What a function that may throw gives back.
Returned(value) == [ok |-> TRUE, value |-> value]
Thrown(error) == [ok |-> FALSE, value |-> error]

\* Mutant of encryptRequestBody: falsy bodies are encrypted like any other.
encryptRequestBody_all(cfg, body, salt) ==
  IF ~Truthy(cfg.encryptionKey) \/ ~cfg.encryptRequests THEN body
  ELSE Str(AESencrypt(JSONstringify(body), cfg.encryptionKey.s, salt))

encryptRequestBody(cfg, body, salt) ==
  IF ~Truthy(cfg.encryptionKey) \/ ~cfg.encryptRequests \/ ~Truthy(body)
  THEN body
  ELSE Str(AESencrypt(JSONstringify(body), cfg.encryptionKey.s, salt))

\* Mutant of decryptResponseBody: the decrypted text is returned unparsed.
decryptResponseBody_raw(cfg, encryptedBody) ==
  IF ~Truthy(cfg.encryptionKey) \/ ~cfg.encryptRequests
  THEN Returned(Literal(encryptedBody))
  ELSE Returned(Literal(Str(
         IF encryptedBody.t = "string"
         THEN AESdecrypt(encryptedBody.s, cfg.encryptionKey.s) ELSE "")))

\* decryptResponseBody: its argument as is when encryption is off, else the
\* parsed plaintext; something that is no ciphertext makes it throw.
decryptResponseBody(cfg, encryptedBody) ==
  IF ~Truthy(cfg.encryptionKey) \/ ~cfg.encryptRequests
  THEN Returned(Literal(encryptedBody))
  ELSE LET decryptedData ==
             IF encryptedBody.t = "string"
             THEN AESdecrypt(encryptedBody.s, cfg.encryptionKey.s) ELSE ""
       IN IF Parses(decryptedData) THEN Returned(JSONparse(decryptedData))
          ELSE Thrown("SyntaxError")

\* this.encryptRequests ? this.decryptResponseBody(text) : JSON.parse(text)
responseBody(cfg, text) ==
  IF cfg.encryptRequests THEN decryptResponseBody(cfg, Str(text))
  ELSE IF Parses(text) THEN Returned(JSONparse(text))
  ELSE Thrown("SyntaxError")

\* ----------------------------------------------------------- verb wrappers

LiteralHeaders == << <<"Accept", "application/json">> >>

\* { ...options, method: M } and { ...options, method: M, body }: a shallow
\* copy, so options.headers is still the caller's object (hdr "own").
Method(verb) ==
  CASE verb = "get" -> "GET"
    [] verb = "post" -> "POST"
    [] verb = "put" -> "PUT"
    [] verb = "delete" -> "DELETE"

wrapOptions(a, hdrs, cfg, salt) ==
  [method |-> Method(a.verb),
   hdr |-> a.hdr,
   hasHeaders |-> a.hdr # "none",
   headers |-> IF a.hdr = "own" THEN hdrs
               ELSE IF a.hdr = "literal" THEN LiteralHeaders ELSE <<>>,
   body |-> IF a.verb \in {"post", "put"}
            THEN encryptRequestBody(cfg, a.body, salt) ELSE Undefined]

\* ------------------------------------------------------------------- hooks
\* One before-hook of the README on the options object: creates
\* options.headers when there is none, then sets its header in place.
applyBeforeHook(hook, options) ==
  [options EXCEPT
     !.hdr = IF options.hdr = "none" THEN "new" ELSE options.hdr,
     !.hasHeaders = TRUE,
     !.headers = SetMember(options.headers, HookHeader(hook)[1],
                           HookHeader(hook)[2])]

\* Mutant of executeBeforeRequestHooks: the hooks are handed a copy, so the
\* options object itself is left as it was.
executeBeforeRequestHooks_copy(options, n) == options

\* beforeRequestHooks.forEach(hook => hook(options)), the first n hooks
\* having returned: the options object as they leave it.
RECURSIVE executeBeforeRequestHooks(_, _)
executeBeforeRequestHooks(options, n) ==
  IF n = 0 THEN options
  ELSE applyBeforeHook(beforeRequestHooks[n],
                       executeBeforeRequestHooks(options, n - 1))

\* Mutant of invoked: a raising hook does not stop the loop.
invoked_all(hooks, r) == hooks

\* The hooks forEach has invoked when hook number r raised (r = 0: none did).
invoked(hooks, r) == SubSeq(hooks, 1, IF r = 0 THEN Len(hooks) ELSE r)

\* afterRequestHooks.forEach(hook => hook(response)): who was called with what.
executeAfterRequestHooks(response, r) ==
  [i \in 1..Len(invoked(afterRequestHooks, r)) |->
     <<afterRequestHooks[i], response>>]

\* ------------------------------------------------------- the steps of a call
\* The steps a call takes are logged in the order the code takes them.
hookSteps(tag, hooks) == [k \in 1..Len(hooks) |-> tag \o ":" \o hooks[k]]

\* fetchWithCache up to its return: the key, the lookup unless forced, and
\* on a miss the before-hooks that were invoked and the call of fetch,
\* which is not reached when a hook raises.
syncSteps(force, hit, before, r) ==
  <<"key">> \o (IF force THEN << >> ELSE <<"lookup">>)
  \o (IF hit THEN <<"resolve">>
      ELSE hookSteps("before", before)
           \o (IF r = 0 THEN <<"fetch">> ELSE <<"throw">>))

\* Mutant of thenSteps: the after-hooks are invoked before the result is
\* stored.
thenSteps_late(after, r) ==
  hookSteps("after", after) \o <<"store">>
  \o (IF r = 0 THEN <<"resolve">> ELSE <<"reject">>)

\* The then-callback on a decoded body: cacheResponse, the after-hooks that
\* were invoked, and the return that resolves the promise, which is not
\* reached when a hook raises.
thenSteps(after, r) ==
  <<"store">> \o hookSteps("after", after)
  \o (IF r = 0 THEN <<"resolve">> ELSE <<"reject">>)

\* -------------------------------------------------------------- observables
\* Mutant of from: the element is emitted and the stream left open.
from_open(channel, value) ==
  IF channel = "fulfilled" THEN << <<"next", value>> >>
  ELSE IF channel = "rejected" THEN << <<"error", value>> >>
  ELSE << >>

\* from(promise): what one subscriber has been notified of, the promise
\* being pending, fulfilled with value or rejected with value.
from(channel, value) ==
  IF channel = "fulfilled" THEN << <<"next", value>>, <<"complete", "">> >>
  ELSE IF channel = "rejected" THEN << <<"error", value>> >>
  ELSE << >>

\* The promise of a call settles: its subscribers are notified.
notified(call) ==
  [call EXCEPT !.subs = [k \in DOMAIN call.subs |->
                           from(call.channel, call.value)]]

\* -------------------------------------------------------------------- init
NoEntry == [timestamp |-> -1, data |-> ""]
NoResponse == [kind |-> "none", ok |-> FALSE, text |-> ""]

Init ==
  /\ now = 0
  /\ cache = << >>
  /\ callerHeaders = LiteralHeaders
  /\ calls = << >>
  /\ config = Plain
  /\ probe = << >>

\* ------------------------------------------------------------ fetchWithCache
\* The synchronous part of get/post/put/delete and of their Observable
\* variants (from(this.get(...)) calls get at once): the key, the lookup,
\* the before-hooks and the call of fetch.  r is the before-hook that raises
\* (0: none), salt the salt CryptoJS draws if the body is encrypted.
fetchWithCache(a, r, salt) ==
  LET options == wrapOptions(a, callerHeaders, config, salt)
      cacheKey == getCacheKey(a.url, options)
      hit == ~a.force /\ isInCache(cache, cacheKey, now)
      done == IF r = 0 THEN Len(beforeRequestHooks) ELSE r - 1
      hooked == executeBeforeRequestHooks(options, done)
      call == [args |-> a, url |-> a.url, request |-> options,
               cacheKey |-> cacheKey, issuedAt |-> now,
               seen |-> IF cacheKey \in DOMAIN cache
                        THEN cache[cacheKey] ELSE NoEntry,
               inflight |-> {k \in 1..Len(calls) : calls[k].pc = "inflight"},
               path |-> "cache", raised |-> 0, before |-> << >>,
               options |-> options, fetched |-> FALSE, sent |-> options,
               pc |-> "done", channel |-> "fulfilled", value |-> "",
               response |-> NoResponse, after |-> << >>, stored |-> FALSE,
               settledAt |-> now, settleNo |-> 0, subs |-> << >>,
               log |-> syncSteps(a.force, hit,
                                 invoked(beforeRequestHooks, r), r)]
  IN IF hit
     THEN /\ r = 0
          /\ cache' = afterLookup(cache, cacheKey, now)
          /\ calls' = Append(calls,
                        [call EXCEPT !.value = IF cacheKey \in DOMAIN cache
                                               THEN cache[cacheKey].data
                                               ELSE "undefined"])
          /\ UNCHANGED callerHeaders
     ELSE /\ cache' = IF a.force THEN cache
                      ELSE afterLookup(cache, cacheKey, now)
          /\ callerHeaders' = IF hooked.hdr = "own" THEN hooked.headers
                              ELSE callerHeaders
          /\ calls' = Append(calls,
               IF r # 0
               THEN [call EXCEPT !.path = "aborted",
                                 !.raised = r,
                                 !.before = invoked(beforeRequestHooks, r),
                                 !.options = hooked,
                                 !.channel = "thrown",
                                 !.value = "HookError"]
               ELSE [call EXCEPT !.path = "transport",
                                 !.before = invoked(beforeRequestHooks, r),
                                 !.options = hooked,
                                 !.fetched = TRUE,
                                 !.sent = hooked,
                                 !.pc = "inflight",
                                 !.channel = "pending"])

Issue(a, r, salt) ==
  /\ Len(calls) < MaxCalls
  /\ fetchWithCache(a, r, salt)
  /\ UNCHANGED <<now, config, probe>>

\* The continuation of fetch(url, options) for call i: the rejection passes
\* through both then-callbacks; a response is read, decoded, stored, shown
\* to the after-hooks and returned.  r is the after-hook that raises (0: none).
Settle(i, out, r) ==
  /\ i \in 1..Len(calls)
  /\ calls[i].pc = "inflight"
  /\ LET c == calls[i]
         end == [c EXCEPT !.pc = "done", !.response = out, !.settledAt = now,
                          !.settleNo = 1 + Cardinality(
                             {k \in 1..Len(calls) : calls[k].settleNo > 0})]
     IN IF out.kind = "reject"
        THEN /\ r = 0
             /\ calls' = [calls EXCEPT ![i] = notified(
                  [end EXCEPT !.channel = "rejected", !.value = out.text,
                              !.log = c.log \o <<"reject">>])]
             /\ UNCHANGED cache
        ELSE LET body == responseBody(config, out.text)
             IN IF ~body.ok
                THEN /\ r = 0
                     /\ calls' = [calls EXCEPT ![i] = notified(
                          [end EXCEPT !.channel = "rejected",
                                      !.value = body.value,
                                      !.log = c.log \o <<"reject">>])]
                     /\ UNCHANGED cache
                ELSE /\ cache' = cacheResponse(cache, c.cacheKey, body.value,
                                               now)
                     /\ calls' = [calls EXCEPT ![i] = notified(
                          [end EXCEPT
                             !.stored = TRUE,
                             !.after = executeAfterRequestHooks(body.value, r),
                             !.channel = IF r = 0 THEN "fulfilled"
                                         ELSE "rejected",
                             !.value = IF r = 0 THEN body.value
                                       ELSE "HookError",
                             !.log = c.log \o thenSteps(
                                       invoked(afterRequestHooks, r), r)])]
  /\ UNCHANGED <<now, callerHeaders, config, probe>>

\* Time passes.
Tick ==
  /\ now + TimeStep <= MaxTime
  /\ now' = now + TimeStep
  /\ UNCHANGED <<cache, callerHeaders, calls, config, probe>>

Next ==
  \/ \E a \in CallArgs, r \in 0..Len(beforeRequestHooks) :
       Issue(a, r, "s1")
  \/ \E i \in 1..MaxCalls, out \in Outcomes, r \in 0..Len(afterRequestHooks) :
       Settle(i, out, r)
  \/ Tick

Spec == Init /\ [][Next]_vars

\* ------------------------------------------------- key derivation on its own
\* getCacheKey applied to requests drawn from bounded sets of urls, methods,
\* headers and bodies, two at a time.
MaxProbes == 2

KeyUrls == {"/x", "/x:GET"}
KeyMethods == {"GET", "POST", "DELETE"}
KeyHeaders == {<<FALSE, << >> >>, <<TRUE, << >> >>, <<TRUE, LiteralHeaders>>}
KeyBodies ==
  {Undefined, Num("0"), Num("1"), Bool("false"), Bool("true"), Str(""),
   Str("a:b")}

KeyRequests ==
  { [url |-> u, method |-> m, hasHeaders |-> h[1], headers |-> h[2],
     body |-> b] : u \in KeyUrls, m \in KeyMethods, h \in KeyHeaders,
                   b \in KeyBodies }

Derive(r) ==
  /\ Len(probe) < MaxProbes
  /\ probe' = Append(probe, [request |-> r, cacheKey |-> getCacheKey(r.url, r)])
  /\ UNCHANGED <<now, cache, callerHeaders, calls, config>>

NextKey == \E r \in KeyRequests : Derive(r)

KeySpec == Init /\ [][NextKey]_vars

\* ------------------------------------------------- the Observable variants
\* getObservable and postObservable return from(this.get(...)) and
\* from(this.post(...)): the call is made at once and the Observable wraps
\* its promise.  Subscribing attaches an observer to that promise; it is
\* notified when the promise settles, at once if it already has.
MaxSubs == 2

Subscribe(i) ==
  /\ i \in 1..Len(calls)
  /\ calls[i].args.api = "observable"
  /\ calls[i].channel # "thrown"
  /\ Len(calls[i].subs) < MaxSubs
  /\ calls' = [calls EXCEPT ![i].subs =
                 Append(@, from(calls[i].channel, calls[i].value))]
  /\ UNCHANGED <<now, cache, callerHeaders, config, probe>>

ObsCallArgs ==
  { Arg("observable", "get", "/x", "none", Undefined, FALSE),
    Arg("observable", "get", "/x", "none", Undefined, TRUE),
    Arg("promise", "get", "/x", "none", Undefined, FALSE) }

NextObs ==
  \/ \E a \in ObsCallArgs, r \in 0..Len(beforeRequestHooks) :
       Issue(a, r, "s1")
  \/ \E i \in 1..MaxCalls, out \in Outcomes, r \in 0..Len(afterRequestHooks) :
       Settle(i, out, r)
  \/ \E i \in 1..MaxCalls : Subscribe(i)
  \/ Tick

ObsSpec == Init /\ [][NextObs]_vars

\* ------------------------------------------------- the cacher with encryption
\* The same operations on an instance constructed with or without a key and
\* with or without the flag; post bodies that are and are not encrypted, and
\* responses that are ciphertexts of JSON, of something else, ciphertexts
\* under another key, and no ciphertexts at all.
EncCallArgs ==
  { Arg("promise", "post", "/x", "none", Obj("{\"v\":1}"), FALSE),
    Arg("promise", "post", "/x", "none", Num("0"), FALSE),
    Arg("promise", "get", "/x", "none", Undefined, FALSE) }

EncOutcomes ==
  { NetworkError,
    Response(TRUE, "{\"v\":1}"),
    Response(TRUE, "<html>"),
    Response(TRUE, AESencrypt("{\"v\":1}", "k1", "s1")),
    Response(TRUE, AESencrypt("<html>", "k1", "s1")),
    Response(TRUE, AESencrypt("{\"v\":1}", "k2", "s1")) }

InitEnc ==
  /\ now = 0
  /\ cache = << >>
  /\ callerHeaders = LiteralHeaders
  /\ calls = << >>
  /\ config \in {Plain, FlagOnly, Sealed}
  /\ probe = << >>

NextEnc ==
  \/ \E a \in EncCallArgs, r \in 0..Len(beforeRequestHooks), salt \in Salts :
       Issue(a, r, salt)
  \/ \E i \in 1..MaxCalls, out \in EncOutcomes,
        r \in 0..Len(afterRequestHooks) : Settle(i, out, r)
  \/ Tick

EncSpec == InitEnc /\ [][NextEnc]_vars

\* ------------------------------------------------ the body codec on its own
\* encryptRequestBody followed by decryptResponseBody, on an instance with a
\* key and the flag set, applied to bodies drawn from a bounded set.
CodecBodies ==
  {Null, Num("0"), Num("1"), Bool("false"), Bool("true"), Str(""),
   Str("a:b"), Obj("{\"v\":1}")}

InitCodec ==
  /\ now = 0
  /\ cache = << >>
  /\ callerHeaders = LiteralHeaders
  /\ calls = << >>
  /\ config = Sealed
  /\ probe = << >>

RoundTrip(body, salt) ==
  /\ Len(probe) < MaxProbes
  /\ LET wire == encryptRequestBody(config, body, salt)
     IN probe' = Append(probe, [body |-> body, wire |-> wire,
                                back |-> decryptResponseBody(config, wire)])
  /\ UNCHANGED <<now, cache, callerHeaders, calls, config>>

NextCodec == \E body \in CodecBodies, salt \in Salts : RoundTrip(body, salt)

CodecSpec == InitCodec /\ [][NextCodec]_vars

\* ------------------------------------------------------------ vocabulary
Calls == 1..Len(calls)

\* The decoded body of the response call i received.
Decoded(i) == JSONparse(calls[i].response.text)

\* Same url, method, headers and body as passed to fetchWithCache.
Identical(i, j) ==
  /\ calls[i].url = calls[j].url
  /\ calls[i].request.method = calls[j].request.method
  /\ calls[i].request.hasHeaders = calls[j].request.hasHeaders
  /\ calls[i].request.headers = calls[j].request.headers
  /\ calls[i].request.body = calls[j].request.body

\* Call j is the call after call i and every earlier call had settled when
\* it was issued.
Sequential(i, j) ==
  /\ j = i + 1
  /\ \A k \in 1..j : calls[k].inflight = {}

\* The age, at the lookup of call j, of the entry it found for its key.
Found(j) == calls[j].seen # NoEntry
Age(j) == calls[j].issuedAt - calls[j].seen.timestamp

\* Call i wrote the entry of its key and no call wrote that key after it.
LastStore(i) ==
  /\ calls[i].stored
  /\ \A k \in Calls : (calls[k].stored /\ calls[k].cacheKey = calls[i].cacheKey)
                        => calls[k].settleNo <= calls[i].settleNo

\* options.headers carries the header the hook sets.
HasHookHeader(options, hook) ==
  /\ options.hasHeaders
  /\ \E k \in 1..Len(options.headers) : options.headers[k] = HookHeader(hook)

\* A non-forced call that went to the transport, got a success response and
\* stored its result, followed, once everything has settled, by an identical non-forced call.
Repeat(i, j) ==
  /\ Sequential(i, j)
  /\ ~calls[i].args.force /\ ~calls[j].args.force
  /\ calls[i].fetched /\ calls[i].stored /\ calls[i].response.ok
  /\ Identical(i, j)

CE_C3 == \A i \in Calls : calls[i].args.force => calls[i].fetched

\* C3 amended: a forced call is never served from the cache, whatever the
\* cache holds for its key, and invokes the transport unless one of its
\* before-hooks raises.  When its transport call succeeds its result replaces
\* the entry of the key, and a following identical non-forced call within
\* the TTL is served the forced call's result.
Thm_C3 ==
  \A i \in Calls :
    calls[i].args.force =>
      /\ calls[i].path # "cache"
      /\ calls[i].raised = 0 => calls[i].fetched
      /\ (LastStore(i) /\ calls[i].cacheKey \in DOMAIN cache) =>
           cache[calls[i].cacheKey] =
             [timestamp |-> calls[i].settledAt, data |-> Decoded(i)]
      /\ \A j \in Calls :
           ( /\ Sequential(i, j) /\ calls[i].stored
             /\ ~calls[j].args.force /\ Identical(i, j)
             /\ calls[j].issuedAt - calls[i].settledAt <= cacheDuration ) =>
             /\ calls[j].path = "cache"
             /\ calls[j].value = Decoded(i)

Wit_C3 ==
  \E i \in Calls :
    /\ calls[i].args.force /\ calls[i].stored
    /\ Found(i) /\ Age(i) <= cacheDuration
    /\ Decoded(i) # calls[i].seen.data
    /\ calls[i].cacheKey \in DOMAIN cache
    /\ cache[calls[i].cacheKey].data = Decoded(i)

\* C4 as stated: the after-hooks are invoked exactly once per successful
\* transport call, in registration order, each with the decoded result, and
\* are invoked for no other call.
CE_C4 ==
  \A i \in Calls :
    calls[i].pc = "done" =>
      calls[i].after =
        IF /\ calls[i].fetched /\ calls[i].response.kind = "response"
           /\ calls[i].response.ok /\ Parses(calls[i].response.text)
        THEN [k \in 1..Len(afterRequestHooks) |->
                <<afterRequestHooks[k], Decoded(i)>>]
        ELSE << >>

\* C5 as stated: on every call not served from the cache each before-hook
\* runs exactly once, in registration order, on the options object the
\* transport then receives; no before-hook runs on a cache hit.
CE_C5 ==
  \A i \in Calls :
    /\ calls[i].path # "cache" => calls[i].before = beforeRequestHooks
    /\ calls[i].path = "cache" => calls[i].before = << >>

\* C5 amended: on every call that invokes the transport each before-hook has
\* run exactly once, in registration order, before it, on the very options
\* object the transport receives, so the transport's options carry every
\* header the hooks set besides the caller's; a before-hook that raises
\* stops the hooks after it; no before-hook runs on a cache hit.
Thm_C5 ==
  \A i \in Calls :
    /\ calls[i].fetched =>
         /\ calls[i].before = beforeRequestHooks
         /\ calls[i].sent = calls[i].options
         /\ \A h \in 1..Len(beforeRequestHooks) :
              HasHookHeader(calls[i].sent, beforeRequestHooks[h])
         /\ \A k \in 1..Len(calls[i].request.headers) :
              \E m \in 1..Len(calls[i].sent.headers) :
                calls[i].sent.headers[m] = calls[i].request.headers[k]
         /\ calls[i].sent.method = calls[i].request.method
         /\ calls[i].sent.body = calls[i].request.body
    /\ calls[i].path = "aborted" =>
         calls[i].before = SubSeq(beforeRequestHooks, 1, calls[i].raised)
    /\ calls[i].path = "cache" => calls[i].before = << >> /\ ~calls[i].fetched

Wit_C5 ==
  \E i \in Calls :
    /\ calls[i].fetched /\ ~calls[i].request.hasHeaders
    /\ HasHookHeader(calls[i].sent, "addAuthToken")

\* C6 as stated: when the transport call fails (network error, DNS error or a
\* non-success HTTP status) the failure is propagated to the caller, no entry
\* is stored and no after-hook is invoked.
CE_C6 ==
  \A i \in Calls :
    ( /\ calls[i].pc = "done" /\ calls[i].fetched
      /\ (calls[i].response.kind = "reject" \/ ~calls[i].response.ok) ) =>
      /\ calls[i].channel = "rejected"
      /\ ~calls[i].stored
      /\ calls[i].after = << >>

\* C7: when a before-hook raises, the hooks after it do not run, the
\* transport is not invoked, no after-hook runs, the failure reaches the
\* caller and the call stores nothing in the cache.
Thm_C7 ==
  \A i \in Calls :
    calls[i].raised # 0 =>
      /\ calls[i].before = SubSeq(beforeRequestHooks, 1, calls[i].raised)
      /\ ~calls[i].fetched /\ calls[i].pc = "done"
      /\ calls[i].after = << >>
      /\ calls[i].channel \in {"thrown", "rejected"}
      /\ calls[i].value = "HookError"
      /\ ~calls[i].stored
      /\ calls[i].cacheKey \in DOMAIN cache =>
           \E k \in Calls \ {i} :
             calls[k].stored /\ calls[k].cacheKey = calls[i].cacheKey

Wit_C7 ==
  \E i \in Calls :
    /\ calls[i].raised = 1 /\ Len(beforeRequestHooks) > 1
    /\ calls[i].path = "aborted"
    /\ calls[i].cacheKey \notin DOMAIN cache

\* C8 as stated: every failure of a call reaches the caller as a rejection
\* of the returned promise or as the error signal of the returned
\* Observable, never as an exception thrown out of the method call.
CE_C8 ==
  \A i \in Calls :
    calls[i].pc = "done" => calls[i].channel \in {"fulfilled", "rejected"}

\* C9 as stated: for every transport call whose result was decoded and
\* stored, the caller's promise resolves with the decoded response, which is
\* also the value stored under the key, whatever the after-hooks do.
CE_C9 ==
  \A i \in Calls :
    calls[i].stored =>
      /\ calls[i].channel = "fulfilled"
      /\ calls[i].value = Decoded(i)
      /\ (LastStore(i) /\ calls[i].cacheKey \in DOMAIN cache) =>
           cache[calls[i].cacheKey].data = Decoded(i)

\* C10 as stated: two requests that differ in url, method, header set or
\* body get different cache keys.
CE_C10 ==
  \A i \in 1..Len(probe), j \in 1..Len(probe) :
    probe[i].request # probe[j].request => probe[i].cacheKey # probe[j].cacheKey

\* C11 as stated: with encryption disabled, two calls of the same verb made
\* with equal url, headers and body arguments (the same headers object
\* passed again included) are looked up and stored under the same cache key,
\* whatever the before-hooks did during earlier calls.
CE_C11 ==
  \A i \in Calls, j \in Calls :
    ( /\ calls[i].args.verb = calls[j].args.verb
      /\ calls[i].args.url = calls[j].args.url
      /\ calls[i].args.hdr = calls[j].args.hdr
      /\ calls[i].args.body = calls[j].args.body ) =>
      calls[i].cacheKey = calls[j].cacheKey

\* C12 as stated: with encryption enabled, the key of a post or put call is
\* derived from the body as the caller passed it, not from the ciphertext,
\* so two calls with the same url, headers and body have the same key and the
\* second, non-forced and issued while the first one's entry is fresh, is
\* served from the cache.
CE_C12 ==
  (Truthy(config.encryptionKey) /\ config.encryptRequests) =>
    \A i \in Calls, j \in Calls :
      ( /\ calls[i].args.verb \in {"post", "put"}
        /\ calls[i].args = calls[j].args ) =>
        /\ calls[i].cacheKey = calls[j].cacheKey
        /\ calls[i].cacheKey =
             getCacheKey(calls[i].url,
                         [calls[i].request EXCEPT !.body = calls[i].args.body])
        /\ ( /\ Sequential(i, j)
             /\ calls[i].stored /\ calls[i].channel = "fulfilled"
             /\ ~calls[j].args.force
             /\ calls[j].issuedAt - calls[i].settledAt <= cacheDuration ) =>
             calls[j].path = "cache"

\* What the cache holds is a decoded value, no ciphertext.
Ciphertexts ==
  {AESencrypt(p, k, s) : p \in Plaintexts, k \in Passphrases, s \in Salts}

CacheIsLogical ==
  (Truthy(config.encryptionKey) /\ config.encryptRequests) =>
    \A k \in DOMAIN cache :
      /\ cache[k].data \in {JSONparse(t) : t \in {p \in Plaintexts : Parses(p)}}
      /\ \A c \in Ciphertexts :
           cache[k].data # c /\ cache[k].data # Literal(Str(c))

\* C13 as stated: with encryption enabled, decryptResponseBody applied to
\* encryptRequestBody(body) returns body, for every serializable body (null,
\* 0, false and "" included), and what the cache stores is the decoded
\* value, never a ciphertext.
CE_C13 ==
  /\ \A i \in 1..Len(probe) :
       probe[i].back = Returned(Literal(probe[i].body))
  /\ CacheIsLogical

\* What a call did, told from what it was given and what it found: the key,
\* the lookup, the hooks, the transport call and the store.
Lawful(i) ==
  LET c == calls[i]
      body == responseBody(config, c.response.text)
  IN /\ c.cacheKey = getCacheKey(c.url, c.request)
     /\ (c.path = "cache") <=>
          (~c.args.force /\ Found(i) /\ Age(i) <= cacheDuration)
     /\ c.path = "cache" =>
          /\ c.channel = "fulfilled" /\ c.value = c.seen.data
          /\ c.before = << >> /\ c.after = << >>
          /\ ~c.fetched /\ ~c.stored
     /\ c.path # "cache" =>
          /\ c.before = SubSeq(beforeRequestHooks, 1,
                          IF c.raised = 0 THEN Len(beforeRequestHooks)
                          ELSE c.raised)
          /\ c.fetched <=> c.raised = 0
          /\ c.raised # 0 => c.channel = "thrown"
     /\ c.stored <=>
          (c.pc = "done" /\ c.fetched /\ c.response.kind = "response" /\ body.ok)
     /\ c.stored =>
          /\ c.after # << >>
          /\ \A k \in 1..Len(c.after) :
               c.after[k] = <<afterRequestHooks[k], body.value>>
          /\ c.channel = "fulfilled" =>
               (c.value = body.value /\ Len(c.after) = Len(afterRequestHooks))
     /\ (c.pc = "done" /\ c.fetched /\ ~c.stored) =>
          (c.channel = "rejected" /\ c.after = << >>)

\* C14: the Observable variant of a verb differs from the Promise variant in
\* delivery only.  The call it makes obeys the same law as a Promise call
\* (lookup, hooks, transport, store), made when the Observable is created;
\* each subscriber is notified of exactly one element, the value the promise
\* is fulfilled with, and then of completion, or of the error the promise is
\* rejected with; subscribing invokes no transport, so the transport is
\* invoked at most once however many subscribers there are.
Thm_C14 ==
  \A i \in Calls :
    /\ Lawful(i)
    /\ calls[i].args.api = "promise" => calls[i].subs = << >>
    /\ calls[i].args.api = "observable" =>
         /\ calls[i].channel = "thrown" => calls[i].subs = << >>
         /\ calls[i].fetched <=> calls[i].path = "transport"
         /\ \A k \in 1..Len(calls[i].subs) :
              /\ calls[i].channel = "pending" => calls[i].subs[k] = << >>
              /\ calls[i].channel = "fulfilled" =>
                   calls[i].subs[k] =
                     << <<"next", calls[i].value>>, <<"complete", "">> >>
              /\ calls[i].channel = "rejected" =>
                   calls[i].subs[k] = << <<"error", calls[i].value>> >>

\* An Observable call that went to the transport, stored its result and
\* notified two subscribers.
Wit_C14 ==
  \E i \in Calls :
    /\ calls[i].args.api = "observable"
    /\ calls[i].fetched /\ calls[i].stored /\ calls[i].channel = "fulfilled"
    /\ Len(calls[i].subs) = MaxSubs

\* The transport call of call i succeeded and the body it received cannot be
\* decoded: with key and flag set it is no ciphertext of a JSON text under
\* the key, otherwise it is no JSON text.
Undecodable(i) ==
  /\ calls[i].pc = "done" /\ calls[i].response.kind = "response"
  /\ IF Truthy(config.encryptionKey) /\ config.encryptRequests
     THEN ~Parses(AESdecrypt(calls[i].response.text, config.encryptionKey.s))
     ELSE ~Parses(calls[i].response.text)

\* C15 as stated: when the transport succeeds but the response body cannot
\* be decoded (malformed JSON, or a decryption failure when encryption is
\* enabled), the call fails with an error, it stores or changes no entry and
\* no after-hook is invoked.
CE_C15 ==
  \A i \in Calls :
    Undecodable(i) =>
      /\ calls[i].channel = "rejected"
      /\ ~calls[i].stored
      /\ calls[i].after = << >>
      /\ (calls[i].inflight = {} /\ i = Len(calls)) =>
           IF calls[i].args.force /\ Found(i)
           THEN /\ calls[i].cacheKey \in DOMAIN cache
                /\ cache[calls[i].cacheKey] = calls[i].seen
           ELSE calls[i].cacheKey \notin DOMAIN cache

\* The same, for an instance whose flag is not set without a key.
DecodeFailureKeepsCache ==
  config # FlagOnly =>
    \A i \in Calls :
      Undecodable(i) =>
        /\ calls[i].channel = "rejected" /\ ~calls[i].stored
        /\ calls[i].after = << >>

\* Calls i and j are non-forced and have the same key, j was issued while
\* the transport call of i was in flight, and j found no fresh entry.
Overlap(i, j) ==
  /\ i < j /\ i \in calls[j].inflight
  /\ ~calls[i].args.force /\ ~calls[j].args.force
  /\ calls[i].cacheKey = calls[j].cacheKey
  /\ ~(Found(j) /\ Age(j) <= cacheDuration)

\* C16 as stated: there is no single-flight.  When two non-forced calls with
\* the same key are issued before the transport call of the first settles,
\* and there is no fresh entry, both miss the cache and both invoke the
\* transport.
CE_C16 ==
  \A i \in Calls, j \in Calls :
    Overlap(i, j) =>
      /\ calls[i].path # "cache" /\ calls[j].path # "cache"
      /\ calls[i].fetched /\ calls[j].fetched

\* C16 amended: a non-forced call that finds no fresh entry misses the cache
\* whatever is in flight, runs its before-hooks and invokes the transport
\* unless one of them raises.  So of two such calls with the same key, the
\* second issued while the first is in flight, both miss the cache, the
\* first has invoked the transport and the second invokes it too unless one
\* of its before-hooks raises; both can be in flight at once.
Thm_C16 ==
  /\ \A j \in Calls :
       (~calls[j].args.force /\ ~(Found(j) /\ Age(j) <= cacheDuration)) =>
         /\ calls[j].path # "cache"
         /\ calls[j].before # << >>
         /\ calls[j].fetched <=> calls[j].raised = 0
         /\ calls[j].raised = 0 => calls[j].path = "transport"
  /\ \A i \in Calls, j \in Calls :
       Overlap(i, j) =>
         /\ calls[i].path = "transport" /\ calls[i].fetched
         /\ calls[j].path # "cache"
         /\ calls[j].fetched <=> calls[j].raised = 0
         /\ calls[i].pc = "inflight" => calls[i].channel = "pending"

\* Two non-forced calls with the same key, both in flight.
Wit_C16 ==
  \E i \in Calls, j \in Calls :
    /\ Overlap(i, j)
    /\ calls[i].pc = "inflight" /\ calls[j].pc = "inflight"
    /\ calls[i].fetched /\ calls[j].fetched

\* The transport call of call i succeeded: a response with a success
\* status whose body could be decoded.
Succeeded(i) ==
  /\ calls[i].pc = "done" /\ calls[i].response.kind = "response"
  /\ calls[i].response.ok
  /\ responseBody(config, calls[i].response.text).ok

\* No call with key k is in flight.
Quiet(k) == \A i \in Calls : calls[i].cacheKey = k => calls[i].pc = "done"

\* C17 as stated: writes are last-write-wins by completion order.  Once all
\* calls in flight for a key have settled, the entry of the key holds the
\* result of the successful call that settled last.
CE_C17 ==
  \A k \in DOMAIN cache :
    (Quiet(k) /\ \E i \in Calls : calls[i].cacheKey = k /\ Succeeded(i)) =>
      \E i \in Calls :
        /\ calls[i].cacheKey = k /\ Succeeded(i)
        /\ \A m \in Calls : (calls[m].cacheKey = k /\ Succeeded(m)) =>
                              calls[m].settleNo <= calls[i].settleNo
        /\ cache[k] = [timestamp |-> calls[i].settledAt, data |-> Decoded(i)]

\* Last-write-wins among the calls that stored: the entry of a key is the
\* one written by the call that stored last, whatever the order of issue.
LastWriteWins ==
  \A k \in DOMAIN cache :
    \E i \in Calls :
      /\ calls[i].cacheKey = k /\ LastStore(i)
      /\ cache[k] = [timestamp |-> calls[i].settledAt, data |-> Decoded(i)]

\* The result of a forced call overwritten by a non-forced call issued
\* before it and settled after it.
ForcedOverwritten ==
  \E i \in Calls, j \in Calls :
    /\ i < j /\ ~calls[i].args.force /\ calls[j].args.force
    /\ calls[i].cacheKey = calls[j].cacheKey
    /\ calls[i].stored /\ calls[j].stored
    /\ calls[j].settleNo < calls[i].settleNo
    /\ Decoded(i) # Decoded(j)
    /\ cache[calls[i].cacheKey].data = Decoded(i)

\* The steps of a call that goes all the way, in the order of C18.
Canon(force) ==
  <<"key">> \o (IF force THEN << >> ELSE <<"lookup">>)
  \o [k \in 1..Len(beforeRequestHooks) |-> "before:" \o beforeRequestHooks[k]]
  \o <<"fetch", "store">>
  \o [k \in 1..Len(afterRequestHooks) |-> "after:" \o afterRequestHooks[k]]
  \o <<"resolve">>

IsPrefix(p, q) == Len(p) <= Len(q) /\ SubSeq(q, 1, Len(p)) = p

\* The steps logged before the call ended in an exception or a rejection.
Taken(log) ==
  IF log[Len(log)] \in {"throw", "reject"} THEN SubSeq(log, 1, Len(log) - 1)
  ELSE log

\* C18: within a call that is not served from the cache the steps are taken
\* in this order: the key, computed from the options as passed in; all
\* before-hooks; the transport; the store under that key; all after-hooks;
\* the resolution of the promise.  A call ends early only by an exception
\* or a rejection, and no step is taken out of this order.  A call served
\* from the cache takes none of these steps after the lookup.
Thm_C18 ==
  \A i \in Calls :
    LET c == calls[i] IN
    /\ c.path = "cache" =>
         /\ c.log = <<"key", "lookup", "resolve">>
         /\ c.before = << >> /\ c.after = << >>
         /\ ~c.fetched /\ ~c.stored
         /\ c.options = c.request
    /\ c.path # "cache" =>
         /\ c.cacheKey = getCacheKey(c.url, c.request)
         /\ IsPrefix(Taken(c.log), Canon(c.args.force))
         /\ c.fetched =>
              /\ c.before = beforeRequestHooks
              /\ \A k \in 1..Len(beforeRequestHooks) :
                   HasHookHeader(c.sent, beforeRequestHooks[k])
         /\ c.pc = "inflight" =>
              (c.log[Len(c.log)] = "fetch" /\ c.channel = "pending"
               /\ ~c.stored)
         /\ c.stored => c.fetched
         /\ c.after # << >> => c.stored
         /\ c.channel = "fulfilled" =>
              /\ c.log = Canon(c.args.force)
              /\ c.stored
              /\ Len(c.after) = Len(afterRequestHooks)

\* A call that took every step: its key is the key of the options it was
\* given, not of the options the hooks left and the transport was given.
Wit_C18 ==
  \E i \in Calls :
    /\ calls[i].path = "transport" /\ calls[i].channel = "fulfilled"
    /\ calls[i].log = Canon(calls[i].args.force)
    /\ calls[i].cacheKey # getCacheKey(calls[i].url, calls[i].sent)
    /\ calls[i].cacheKey \in DOMAIN cache

\* A step that issues a call, and the call it issues.
Issued == Len(calls') = Len(calls) + 1
TheCall == calls'[Len(calls')]

\* C19: eviction is lazy and happens only at a lookup.  A non-forced call
\* that finds a stale entry for its key removes it in the step that goes on
\* to the before-hooks and the transport; a lookup that finds a fresh entry
\* leaves the map as it was; and no other step removes an entry: no passing
\* of time, no forced call, no call for another key, no settling.
Removal ==
  /\ \A k \in DOMAIN cache :
       k \notin DOMAIN cache' =>
         /\ Issued
         /\ ~TheCall.args.force
         /\ TheCall.cacheKey = k
         /\ TheCall.seen = cache[k]
         /\ TheCall.issuedAt - cache[k].timestamp > cacheDuration
         /\ TheCall.path # "cache"
  /\ Issued =>
       /\ ( /\ ~TheCall.args.force
            /\ TheCall.cacheKey \in DOMAIN cache
            /\ now - cache[TheCall.cacheKey].timestamp > cacheDuration ) =>
            /\ TheCall.cacheKey \notin DOMAIN cache'
            /\ TheCall.path # "cache"
            /\ \A k \in DOMAIN cache \ {TheCall.cacheKey} :
                 k \in DOMAIN cache' /\ cache'[k] = cache[k]
       /\ TheCall.path = "cache" => cache' = cache
       /\ TheCall.args.force => cache' = cache
  /\ now' # now => cache' = cache

Thm_C19 == [][Removal]_vars

\* A non-forced call found a stale entry, removed it and is in flight.
Wit_C19 ==
  \E j \in Calls :
    /\ ~calls[j].args.force
    /\ Found(j) /\ Age(j) > cacheDuration
    /\ calls[j].pc = "inflight"
    /\ calls[j].cacheKey \notin DOMAIN cache

\* Call i is forced, found an entry for its key, and no other call was in
\* flight when it was issued or has been issued since.
ForcedAlone(i) ==
  /\ calls[i].args.force /\ Found(i)
  /\ calls[i].inflight = {} /\ i = Len(calls)

\* C20 as stated: a forced call neither reads, evicts nor modifies the entry
\* of its key until its own transport call succeeds.  While it is in flight,
\* and after it has failed, the entry it found is still in the map,
\* unchanged.
CE_C20 ==
  \A i \in Calls :
    (ForcedAlone(i) /\ ~Succeeded(i)) =>
      /\ calls[i].path # "cache"
      /\ calls[i].cacheKey \in DOMAIN cache
      /\ cache[calls[i].cacheKey] = calls[i].seen

\* The same while the forced call is in flight and after it has ended without
\* storing (a raising before-hook, a rejected fetch, an undecodable body).
ForcedKeepsEntry ==
  \A i \in Calls :
    (ForcedAlone(i) /\ ~calls[i].stored) =>
      /\ calls[i].path # "cache"
      /\ calls[i].cacheKey \in DOMAIN cache
      /\ cache[calls[i].cacheKey] = calls[i].seen

\* C21: the timestamp of an entry is the time its result was stored, not
\* the time the call was issued.  When a transport call issued at t0 settles
\* at t1 >= t0 and stores, the entry of its key has timestamp t1; every
\* successful transport call stores, and so resets the timestamp of the entry
\* of its key to its own settlement time; and every entry carries the
\* settlement time of a call that stored under its key.
Stamped ==
  /\ \A i \in Calls :
       (calls[i].pc = "inflight" /\ calls'[i].pc = "done") =>
         LET c == calls'[i] IN
         /\ c.settledAt = now /\ c.settledAt >= c.issuedAt
         /\ ( /\ c.response.kind = "response" /\ c.response.ok
              /\ responseBody(config, c.response.text).ok ) => c.stored
         /\ c.stored =>
              /\ c.cacheKey \in DOMAIN cache'
              /\ cache'[c.cacheKey].timestamp = c.settledAt
  /\ \A k \in DOMAIN cache' :
       \E i \in 1..Len(calls') :
         /\ calls'[i].stored /\ calls'[i].cacheKey = k
         /\ cache'[k].timestamp = calls'[i].settledAt

Thm_C21 == [][Stamped]_vars

\* Two successful transport calls for one key, both issued at t0: the
\* second to settle did so later than t0 and after the first, and the entry
\* carries its settlement time.
Wit_C21 ==
  \E i \in Calls, j \in Calls :
    /\ i # j /\ calls[i].cacheKey = calls[j].cacheKey
    /\ Succeeded(i) /\ Succeeded(j)
    /\ calls[i].settleNo < calls[j].settleNo
    /\ calls[j].issuedAt < calls[i].settledAt
    /\ calls[i].settledAt < calls[j].settledAt
    /\ cache[calls[j].cacheKey].timestamp = calls[j].settledAt

\* Call j resolved without invoking the transport.
Served(j) ==
  /\ calls[j].pc = "done" /\ calls[j].channel = "fulfilled"
  /\ ~calls[j].fetched

\* Call i had settled when call j was issued, and has the key of call j.
Before(i, j) ==
  /\ i < j /\ i \notin calls[j].inflight
  /\ calls[i].cacheKey = calls[j].cacheKey

\* C22 as stated: no stale or foreign reads.  Whenever a call resolves
\* without invoking the transport, the value it resolves with is the result
\* of the most recently stored successful transport call for the same cache
\* key, and that result was stored no longer than the TTL before the call.
CE_C22 ==
  \A j \in Calls :
    Served(j) =>
      \E i \in Calls :
        /\ Before(i, j) /\ Succeeded(i) /\ calls[i].stored
        /\ \A m \in Calls : (Before(m, j) /\ Succeeded(m)) =>
                              calls[m].settleNo <= calls[i].settleNo
        /\ calls[j].value = Decoded(i)
        /\ calls[j].issuedAt - calls[i].settledAt <= cacheDuration

\* The same for the call that stored last, successful or not.
NoStaleReads ==
  \A j \in Calls :
    Served(j) =>
      \E i \in Calls :
        /\ Before(i, j) /\ calls[i].stored
        /\ \A m \in Calls : (Before(m, j) /\ calls[m].stored) =>
                              calls[m].settleNo <= calls[i].settleNo
        /\ calls[j].value = Decoded(i)
        /\ calls[j].issuedAt - calls[i].settledAt <= cacheDuration

====
